---------------------------- MODULE Spec2Model ----------------------------
(***************************************************************************)
(* Huffman coding engine of Chapter6-7/huffman-coding.cpp: one             *)
(* HuffmanCoding instance (root, codes, frequencies) driven by calls of    *)
(* buildTree, encode and decode in any order.                              *)
(*                                                                         *)
(* Representation.  A Node is a record; a Node* is a sequence that is      *)
(* empty (nullptr) or holds the pointed-to node.  Nodes are never freed    *)
(* and never compared by address, so a pointer is identified with the      *)
(* subtree it reaches.  The member `root` has no initialiser: until line   *)
(* 72 assigns it, its value is indeterminate (rootIndeterminate).          *)
(* Strings are sequences of one-character strings.  std::priority_queue    *)
(* is a set of nodes; top() is any node no other node is ordered above     *)
(* by Compare, since the order of equal-frequency nodes depends on the     *)
(* unspecified iteration order of unordered_map.                           *)
(***************************************************************************)
EXTENDS Integers, Sequences, FiniteSets, TLC

\* ------------------------------------------------------------------ bounds
\* longest text handed to buildTree
MaxLen == 4
\* longest text handed to encode
MaxEnc == 2
\* longest bitstring handed to decode
MaxBits == 3
\* cap on the sum of the counters frequencies[c] (buildTree is not offered
\* a text that would push the total past it)
MaxTotal == 6
\* longest text handed to buildTree where only a fresh instance is built
MaxFresh == 5

Symbols == {"a", "b", "c"}
Bits == {"0", "1"}
\* '\0', the character of an internal node (line 66)
Nul == "nul"

SeqsUpTo(S, n) == UNION {[1..k -> S] : k \in 0..n}
Range(s) == {s[i] : i \in DOMAIN s}

VARIABLES
    root,               \* Node* root (line 29)
    rootIndeterminate,  \* TRUE while root holds no assigned value
    codes,              \* unordered_map<char,string> codes (line 30)
    frequencies,        \* unordered_map<char,int> frequencies (line 31)
    pq,                 \* buildTree's local priority_queue (line 54)
    pc,                 \* "idle", "loop" (inside buildTree) or "crashed"
    lastCall,           \* the call in progress or last completed
    builds,             \* buildTree calls begun so far, saturating at 2
    others              \* TRUE once encode or decode has been called

vars == <<root, rootIndeterminate, codes, frequencies, pq, pc, lastCall,
          builds, others>>

\* ------------------------------------------------------------------- Node
NullPtr == <<>>

Node(c, f, l, r) == [character |-> c, frequency |-> f, left |-> l, right |-> r]

isLeaf(n) == Len(n.left) = 0 /\ Len(n.right) = 0

\* Compare::operator(): TRUE when a is ordered below b in the heap
CompareFlipped(a, b) == a.frequency < b.frequency
Compare(a, b) == a.frequency > b.frequency

\* the nodes priority_queue::top() may return
Top(q) == {n \in q : \A m \in q : ~Compare(n, m)}

\* --------------------------------------------------------- generateCodes
EmptyMap == [c \in {} |-> <<>>]

RECURSIVE generateCodes(_, _, _)
generateCodes(cs, node, code) ==
    IF Len(node) = 0 THEN cs
    ELSE IF isLeaf(node[1])
         THEN (node[1].character :> (IF code = <<>> THEN <<"0">> ELSE code)) @@ cs
         ELSE generateCodes(generateCodes(cs, node[1].left, code \o <<"0">>),
                            node[1].right, code \o <<"1">>)

\* ------------------------------------------------------------- buildTree
\* lines 49-51: frequencies[c]++ for every character of text
CountFrequencies(freq, text) ==
    [c \in DOMAIN freq \cup Range(text) |->
        (IF c \in DOMAIN freq THEN freq[c] ELSE 0)
        + Cardinality({i \in DOMAIN text : text[i] = c})]

RECURSIVE SumOver(_, _)
SumOver(f, D) ==
    IF D = {} THEN 0
    ELSE LET c == CHOOSE x \in D : TRUE IN f[c] + SumOver(f, D \ {c})

Total(freq) == SumOver(freq, DOMAIN freq)

\* lines 57-59: one leaf per entry of frequencies
Leaves(freq) == {Node(c, freq[c], NullPtr, NullPtr) : c \in DOMAIN freq}

Call(op, arg, status, result) ==
    [op |-> op, arg |-> arg, status |-> status, result |-> result,
     first |-> builds = 0 /\ ~others]

\* lines 47-59: count, then fill the queue
BuildTree(text) ==
    /\ pc = "idle"
    /\ Total(frequencies) + Len(text) <= MaxTotal
    /\ frequencies' = CountFrequencies(frequencies, text)
    /\ pq' = Leaves(frequencies')
    /\ pc' = "loop"
    /\ lastCall' = Call("buildTree", text, "running", <<>>)
    /\ builds' = IF builds < 2 THEN builds + 1 ELSE builds
    /\ UNCHANGED <<root, rootIndeterminate, codes, others>>

\* lines 62-70: one iteration of the merge loop
Merge ==
    /\ pc = "loop"
    /\ Cardinality(pq) > 1
    /\ \E left \in Top(pq) :
         \E right \in Top(pq \ {left}) :
            pq' = (pq \ {left, right})
                  \cup {Node(Nul, left.frequency + right.frequency,
                             <<left>>, <<right>>)}
    /\ UNCHANGED <<root, rootIndeterminate, codes, frequencies, pc, lastCall,
                   builds, others>>

\* lines 72-75 with a node in the queue
BuildTreeReturn ==
    /\ pc = "loop"
    /\ Cardinality(pq) = 1
    /\ \E top \in Top(pq) :
         /\ root' = <<top>>
         /\ codes' = generateCodes(codes, <<top>>, <<>>)
    /\ rootIndeterminate' = FALSE
    /\ pq' = {}
    /\ pc' = "idle"
    /\ lastCall' = [lastCall EXCEPT !.status = "ok"]
    /\ UNCHANGED <<frequencies, builds, others>>

\* lines 72-75 with the queue empty: top() of an empty queue is undefined.
\* The read faults, or yields a value that is null (generateCodes returns at
\* line 35) or not (generateCodes dereferences it: faults, or goes on with
\* nothing the model can name).
BuildTreeEmptyQueue ==
    /\ pc = "loop"
    /\ pq = {}
    /\ \/ /\ pc' = "crashed"
          /\ lastCall' = [lastCall EXCEPT !.status = "crash"]
          /\ UNCHANGED <<root, rootIndeterminate>>
       \/ /\ pc' = "idle"
          /\ root' = NullPtr
          /\ rootIndeterminate' = FALSE
          /\ lastCall' = [lastCall EXCEPT !.status = "undefined"]
       \/ /\ pc' = "idle"
          /\ root' = NullPtr
          /\ rootIndeterminate' = TRUE
          /\ lastCall' = [lastCall EXCEPT !.status = "undefined"]
    /\ UNCHANGED <<codes, frequencies, pq, builds, others>>

\* ---------------------------------------------------------------- encode
\* lines 80-84; codes[c] inserts an empty string for a missing key
RECURSIVE encodeLoop(_, _, _, _)
encodeLoop(cs, text, i, result) ==
    IF i > Len(text) THEN [codes |-> cs, result |-> result]
    ELSE LET c == text[i]
             cs2 == IF c \in DOMAIN cs THEN cs ELSE (c :> <<>>) @@ cs
         IN encodeLoop(cs2, text, i + 1, result \o cs2[c])

encode(cs, text) == encodeLoop(cs, text, 1, <<>>)

Encode(text) ==
    /\ pc = "idle"
    /\ LET r == encode(codes, text) IN
         /\ codes' = r.codes
         /\ lastCall' = Call("encode", text, "ok", r.result)
    /\ others' = TRUE
    /\ UNCHANGED <<root, rootIndeterminate, frequencies, pq, pc, builds>>

\* ---------------------------------------------------------------- decode
\* lines 92-99 from bit i on; status "ub" when a null or indeterminate
\* pointer is dereferenced (lines 93, 95), result being what was decoded
\* before that
RECURSIVE decodeLoop(_, _, _, _, _, _)
decodeLoop(rt, indet, current, encoded, i, result) ==
    IF i > Len(encoded) THEN [status |-> "ok", result |-> result, current |-> current]
    ELSE IF indet \/ Len(current) = 0
         THEN [status |-> "ub", result |-> result, current |-> current]
         ELSE LET next == IF encoded[i] = "0" THEN current[1].left
                                              ELSE current[1].right
              IN IF Len(next) = 0
                 THEN [status |-> "ub", result |-> result, current |-> next]
                 ELSE IF isLeaf(next[1])
                      THEN decodeLoop(rt, indet, rt, encoded, i + 1,
                                      result \o <<next[1].character>>)
                      ELSE decodeLoop(rt, indet, next, encoded, i + 1, result)

decode(rt, indet, encoded) == decodeLoop(rt, indet, rt, encoded, 1, <<>>)

\* what a call of decode can end in: its return value, or, after undefined
\* behaviour, a fault or a return with what had been decoded
DecodeOutcomes(rt, indet, encoded) ==
    LET r == decode(rt, indet, encoded) IN
    IF r.status = "ok" THEN {[status |-> "ok", result |-> r.result]}
    ELSE {[status |-> "crash", result |-> r.result],
          [status |-> "undefined", result |-> r.result]}

Decode(encoded) ==
    /\ pc = "idle"
    /\ \E o \in DecodeOutcomes(root, rootIndeterminate, encoded) :
         /\ lastCall' = Call("decode", encoded, o.status, o.result)
         /\ pc' = IF o.status = "crash" THEN "crashed" ELSE "idle"
    /\ others' = TRUE
    /\ UNCHANGED <<root, rootIndeterminate, codes, frequencies, pq, builds>>

\* ------------------------------------------------------------------ Spec
Init ==
    /\ root = NullPtr
    /\ rootIndeterminate = TRUE
    /\ codes = EmptyMap
    /\ frequencies = EmptyMap
    /\ pq = {}
    /\ pc = "idle"
    /\ lastCall = [op |-> "none", arg |-> <<>>, status |-> "ok", result |-> <<>>,
                   first |-> FALSE]
    /\ builds = 0
    /\ others = FALSE

Next ==
    \/ \E text \in SeqsUpTo(Symbols, MaxLen) : BuildTree(text)
    \/ Merge
    \/ BuildTreeReturn
    \/ BuildTreeEmptyQueue
    \/ \E text \in SeqsUpTo(Symbols, MaxEnc) : Encode(text)
    \/ \E encoded \in SeqsUpTo(Bits, MaxBits) : Decode(encoded)

Spec == Init /\ [][Next]_vars

\* One buildTree call on a fresh instance, over a wider alphabet.
WideSymbols == {"a", "b", "c", "d"}

NextFresh ==
    \/ \E text \in SeqsUpTo(WideSymbols, MaxFresh) :
          builds = 0 /\ ~others /\ BuildTree(text)
    \/ Merge
    \/ BuildTreeReturn
    \/ BuildTreeEmptyQueue

SpecFresh == Init /\ [][NextFresh]_vars


\* ------------------------------------------------- notions the claims use
IsPrefix(s, t) == Len(s) <= Len(t) /\ SubSeq(t, 1, Len(s)) = s

RECURSIVE LeafSymbols(_)
LeafSymbols(node) ==
    IF Len(node) = 0 THEN {}
    ELSE IF isLeaf(node[1]) THEN {node[1].character}
         ELSE LeafSymbols(node[1].left) \cup LeafSymbols(node[1].right)

RECURSIVE InternalCount(_)
InternalCount(node) ==
    IF Len(node) = 0 \/ isLeaf(node[1]) THEN 0
    ELSE 1 + InternalCount(node[1].left) + InternalCount(node[1].right)

\* every internal node below (and including) node weighs what its two
\* children weigh together
RECURSIVE InternalSums(_)
InternalSums(node) ==
    \/ Len(node) = 0
    \/ isLeaf(node[1])
    \/ /\ Len(node[1].left) = 1 /\ Len(node[1].right) = 1
       /\ node[1].frequency = node[1].left[1].frequency + node[1].right[1].frequency
       /\ InternalSums(node[1].left)
       /\ InternalSums(node[1].right)

Weights(q) == [n \in q |-> n.frequency]
QueueWeight(q) == SumOver(Weights(q), q)

\* the occurrence counts of one text
Occurrences(text) == CountFrequencies(EmptyMap, text)

\* sum over the symbols of frequency times code length
WeightedLength(freq, cs) ==
    SumOver([c \in DOMAIN freq |-> freq[c] * Len(cs[c])], DOMAIN freq)

RECURSIVE Pow2(_)
Pow2(k) == IF k = 0 THEN 1 ELSE 2 * Pow2(k - 1)

\* Kraft-McMillan: a prefix-free binary code with code lengths len exists
\* iff the sum of 2^(-len[c]) is at most 1
Kraft(len, D) ==
    LET n == Cardinality(D) IN
    SumOver([c \in D |-> Pow2(n - len[c])], D) <= Pow2(n)

\* the least total length any prefix-free binary code reaches for freq
OptimalLength(freq) ==
    LET D == DOMAIN freq
        n == Cardinality(D)
        costs == {SumOver([c \in D |-> freq[c] * len[c]], D) :
                    len \in {l \in [D -> 1..n] : Kraft(l, D)}}
    IN CHOOSE m \in costs : \A k \in costs : m <= k

\* buildTree has returned normally and nothing was called since
Built == pc = "idle" /\ lastCall.op = "buildTree" /\ lastCall.status = "ok"
\* ... and it was the first call on the instance
BuiltFresh == Built /\ lastCall.first
\* a call has ended, by returning or by a fault
Ended(op) == lastCall.op = op /\ pc # "loop"
RootIsNode == ~rootIndeterminate /\ Len(root) = 1

\* n, the number of distinct symbols of the text of the call
DistinctSymbols == Cardinality(Range(lastCall.arg))

\* the step is a call of encode
EncodeStep == pc = "idle" /\ pc' = "idle" /\ lastCall'.op = "encode"
\* the step is one iteration of the merge loop
MergeStep == pc = "loop" /\ pc' = "loop"
\* the step is buildTree leaving the merge loop
LoopExit == pc = "loop" /\ pc' # "loop"

\* ----------------------------------------------------------------- claims
\* C1: after buildTree(t) on a fresh instance, t non-empty, decode(encode(t))
\* returns exactly t, also when t has one distinct symbol.
RoundTrip ==
    (BuiltFresh /\ lastCall.arg # <<>>) =>
        DecodeOutcomes(root, rootIndeterminate, encode(codes, lastCall.arg).result)
            = {[status |-> "ok", result |-> lastCall.arg]}

\* C2: after buildTree(t), t non-empty, no code of the code table is a prefix
\* of (or equal to) the code of another symbol.
PrefixFree ==
    (Built /\ lastCall.arg # <<>>) =>
        \A c \in DOMAIN codes : \A d \in DOMAIN codes \ {c} :
            ~IsPrefix(codes[c], codes[d])

\* C3: after every buildTree(t), t non-empty, first call or later, the root's
\* weight is the sum of the frequency table and the length of t, and every
\* internal node weighs the sum of its two children.
WeightConservation ==
    (Built /\ lastCall.arg # <<>>) =>
        /\ RootIsNode
        /\ root[1].frequency = Total(frequencies)
        /\ root[1].frequency = Len(lastCall.arg)
        /\ InternalSums(root)

\* C4: after any sequence of buildTree calls the frequency table holds the
\* occurrence counts of the last text, and the tree's leaves and the code
\* table's keys are the distinct symbols of the last text.
RebuildReplaces ==
    (Built /\ ~others /\ lastCall.arg # <<>>) =>
        /\ frequencies = Occurrences(lastCall.arg)
        /\ LeafSymbols(root) = Range(lastCall.arg)
        /\ DOMAIN codes = Range(lastCall.arg)

\* C5: buildTree of a zero-length text ends in EmptyInputError: not in a
\* fault or an unspecified continuation, which only top() of an empty queue
\* brings about, and not in a return that leaves a null or invalid root.
EmptyInputReported ==
    (Ended("buildTree") /\ lastCall.arg = <<>>) =>
        /\ lastCall.status = "EmptyInputError"
        /\ lastCall.status \notin {"crash", "undefined"}
        /\ pc = "idle" => RootIsNode

\* C6: encode of a text holding a symbol without an entry in the code table
\* ends in LookupError, never in a bitstring.
UnmappedReported ==
    [][(EncodeStep /\ \E c \in Range(lastCall'.arg) : c \notin DOMAIN codes)
         => lastCall'.status = "LookupError"]_vars

\* C7: decode of a bitstring that leaves the traversal pointer off the root
\* ends in DecodeError, never in the symbols decoded so far.
TruncatedReported ==
    (Ended("decode") /\ RootIsNode) =>
        LET r == decode(root, rootIndeterminate, lastCall.arg) IN
        (r.status = "ok" /\ r.current # root) => lastCall.status = "DecodeError"

\* C8: encode leaves the code table and the tree unchanged, so that after any
\* buildTree and encode calls the code table's keys are the leaf symbols of
\* the tree and every code is a non-empty bitstring.
EncodeReadOnly ==
    [][EncodeStep =>
         /\ UNCHANGED <<codes, root, rootIndeterminate>>
         /\ (RootIsNode /\ builds > 0) =>
               /\ DOMAIN codes' = LeafSymbols(root')
               /\ \A c \in DOMAIN codes' : codes'[c] # <<>>]_vars

\* C9: after buildTree(t) on a fresh instance, t with two or more distinct
\* symbols, the length of encode(t), which is the sum of frequency times code
\* length, is the least any prefix-free binary code reaches for those
\* frequencies, however the queue orders equal weights.
Optimality ==
    (BuiltFresh /\ DistinctSymbols >= 2) =>
        LET least == OptimalLength(frequencies) IN
        /\ Len(encode(codes, lastCall.arg).result) = least
        /\ WeightedLength(frequencies, codes) = least

\* C9's case: a tree over four symbols of unequal weight has been built
OptimalityWitness ==
    /\ BuiltFresh
    /\ Range(lastCall.arg) = WideSymbols
    /\ \E c \in WideSymbols : frequencies[c] >= 2
    /\ InternalCount(root) = 3

\* C10: for a text with n >= 1 distinct symbols the merge loop makes n-1
\* merges and leaves one node, the root; a merge takes the two lightest
\* nodes, first taken left and second right, and keeps the queue's weight;
\* with n = 1 there is no merge and the leaf is the root.
MergeLoop ==
    [][/\ MergeStep =>
            /\ QueueWeight(pq') = QueueWeight(pq)
            /\ \E l \in pq : \E r \in pq \ {l} :
                 /\ \A m \in pq : l.frequency <= m.frequency
                 /\ \A m \in pq \ {l} : r.frequency <= m.frequency
                 /\ pq' = (pq \ {l, r})
                          \cup {Node(Nul, l.frequency + r.frequency, <<l>>, <<r>>)}
            /\ DistinctSymbols # 1
       /\ (LoopExit /\ DistinctSymbols >= 1) =>
            /\ Cardinality(pq) = 1
            /\ root' = <<CHOOSE m \in pq : TRUE>>
            /\ ~rootIndeterminate'
            /\ InternalCount(root') = DistinctSymbols - 1
            /\ DistinctSymbols = 1 => isLeaf(root'[1])]_vars

=============================================================================
